---- MODULE Spec2Model ----
(***************************************************************************)
(* rconf: configuration archives.  A path is modelled by its components,   *)
(* as std::path::Path compares them: abs says whether the path has a root, *)
(* segs are its normal components.  Option<T> is a sequence of length 0    *)
(* (None) or 1 (Some).                                                     *)
(***************************************************************************)
EXTENDS Naturals, Sequences, FiniteSets

VARIABLES
    paths,       \* ConfigArchive.paths of the configuration file: Option<PathSpecifier>
    manager,     \* ConfigArchive.manager of the configuration file: Option<Manager>
    fs,          \* the local file system: existing absolute path |-> "dir" or file content
    home_dir,    \* dirs::home_dir() on this host: Option<path>
    config_dir,  \* dirs::config_dir() on this host: Option<path>
    tar,         \* the archive file on disk: Option<sequence of entries>
    handle,      \* the ConfigArchive returned by with_archive: Option<record>
    pc,          \* "idle", or the pass in progress: "install" / "uninstall"
    cursor,      \* position of the pass in the archive's entries
    op,          \* the operation that ran last
    result,      \* its result
    fault,       \* whether the host reported an i/o failure during it
    mgr_status,  \* exit status of the manager command it ran, "none" if it ran none
    srcFs,       \* the file system as write_archive last read it, when it succeeded
    passFs,      \* the file system when the current pass began
    unpacked,    \* the entries the current install pass unpacked: name and destination
    runs,        \* number of times the program was run
    probe        \* input and output of the last path conversion tried alone

vars == <<paths, manager, fs, home_dir, config_dir, tar, handle, pc, cursor, op,
          result, fault, mgr_status, srcFs, passFs, unpacked, runs, probe>>

(* ---------------------------- bounds ----------------------------------- *)
\* longest list of strings in one domain of a PathSpecifier
MaxPaths == 1
\* most runs of the program on one host
MaxRuns == 2
\* most components of a path handed to the path conversions
MaxLen == 2

(* ---------------------------- paths ------------------------------------ *)
None == <<>>
Some(v) == <<v>>

P(abs, segs) == [abs |-> abs, segs |-> segs]

\* Path::new("") and PathBuf::new()
EmptyPath == P(FALSE, <<>>)

\* Path::starts_with(base) for a one-component relative base
starts_with(path, seg) ==
    /\ ~path.abs
    /\ Len(path.segs) >= 1
    /\ path.segs[1] = seg

\* Path::strip_prefix(base).unwrap() for a one-component relative base
strip_prefix(path, seg) == P(FALSE, Tail(path.segs))

is_relative(path) == ~path.abs

is_absolute(path) == path.abs

\* PathBuf::push: an absolute argument replaces the buffer
push(buf, path) ==
    IF path.abs THEN path ELSE P(buf.abs, buf.segs \o path.segs)

Kinds == {"ABSOLUTE", "HOME", "CONFIG"}

ArchivePath(kind, path) == [kind |-> kind, path |-> path]

\* the name of the manifest entry
RCONF == P(FALSE, <<".rconf">>)

\* the name of the script entry
INSTALL_SH == P(FALSE, <<"install.sh">>)

PathKindFrom(path) ==
    IF is_absolute(path) THEN "ABSOLUTE"
    ELSE IF starts_with(path, "home") THEN "HOME"
    ELSE IF starts_with(path, "config") THEN "CONFIG"
    ELSE "ABSOLUTE"

\* a name with a root classified without the test for a relative name
from_tar_path_rooted(path) ==
    IF path = RCONF THEN None
    ELSE IF starts_with(path, "home")
      THEN Some(ArchivePath("HOME", strip_prefix(path, "home")))
    ELSE IF starts_with(path, "config")
      THEN Some(ArchivePath("CONFIG", strip_prefix(path, "config")))
    ELSE Some(ArchivePath("ABSOLUTE", path))

\* a name without a marker segment skipped
from_tar_path_markers_only(path) ==
    IF path = RCONF THEN None
    ELSE IF starts_with(path, "home")
      THEN Some(ArchivePath("HOME", strip_prefix(path, "home")))
    ELSE IF starts_with(path, "config")
      THEN Some(ArchivePath("CONFIG", strip_prefix(path, "config")))
    ELSE None

from_tar_path_no_skip(path) ==
    IF starts_with(path, "home")
      THEN Some(ArchivePath("HOME", strip_prefix(path, "home")))
    ELSE IF starts_with(path, "config")
      THEN Some(ArchivePath("CONFIG", strip_prefix(path, "config")))
    ELSE IF is_relative(path)
      THEN Some(ArchivePath("ABSOLUTE", path))
    ELSE None

from_tar_path(path) ==
    IF path = RCONF THEN None
    ELSE IF starts_with(path, "home")
      THEN Some(ArchivePath("HOME", strip_prefix(path, "home")))
    ELSE IF starts_with(path, "config")
      THEN Some(ArchivePath("CONFIG", strip_prefix(path, "config")))
    ELSE IF is_relative(path)
      THEN Some(ArchivePath("ABSOLUTE", path))
    ELSE None

to_tar_path_no_marker(ap) ==
    IF ap.kind = "ABSOLUTE"
      THEN IF ap.path.abs THEN P(FALSE, ap.path.segs) ELSE ap.path
    ELSE push(EmptyPath, ap.path)

to_tar_path(ap) ==
    IF ap.kind = "ABSOLUTE"
      THEN IF ap.path.abs THEN P(FALSE, ap.path.segs) ELSE ap.path
    ELSE push(push(EmptyPath, P(FALSE, <<(IF ap.kind = "HOME" THEN "home" ELSE "config")>>)),
              ap.path)

\* Result<PathBuf, ConfigError>
Ok(v) == [err |-> "none", val |-> v]
Err(e) == [err |-> e, val |-> EmptyPath]

\* a directory that is not found taken to be the root
try_dir_or_root(dir, kind) ==
    IF dir = None THEN Ok(P(TRUE, <<>>)) ELSE Ok(dir[1])

\* try_dir!: the resolved directory, or DirNotFound naming the kind
try_dir(dir, kind) ==
    IF dir = None
      THEN Err(IF kind = "HOME" THEN "DirNotFound(Home)"
               ELSE IF kind = "CONFIG" THEN "DirNotFound(Config)"
               ELSE "DirNotFound(absolute)")
    ELSE Ok(dir[1])

to_local_path(ap, home, config) ==
    LET root == IF ap.kind = "ABSOLUTE" THEN Ok(P(TRUE, <<>>))
                ELSE IF ap.kind = "HOME" THEN try_dir(home, "HOME")
                ELSE try_dir(config, "CONFIG")
    IN IF root.err # "none" THEN root
       ELSE Ok(push(push(EmptyPath, root.val), ap.path))

(* ---------------------------- PathSpecifier ---------------------------- *)
\* one ArchivePath per configured string, last string first
archive_path_vec_reversed(property, kind) ==
    IF property = None THEN <<>>
    ELSE [i \in 1..Len(property[1]) |->
            ArchivePath(kind, property[1][Len(property[1]) + 1 - i])]

\* archive_path_vec!: one ArchivePath per configured string, none when absent
archive_path_vec(property, kind) ==
    IF property = None THEN <<>>
    ELSE [i \in 1..Len(property[1]) |-> ArchivePath(kind, property[1][i])]

get_archiveable_paths(specifier, kind) ==
    IF kind = "ABSOLUTE" THEN archive_path_vec(specifier.absolute, "ABSOLUTE")
    ELSE IF kind = "HOME" THEN archive_path_vec(specifier.home, "HOME")
    ELSE archive_path_vec(specifier.config, "CONFIG")

\* the domains concatenated with Home first
all_paths_home_first(specifier) ==
    get_archiveable_paths(specifier, "HOME")
      \o get_archiveable_paths(specifier, "ABSOLUTE")
      \o get_archiveable_paths(specifier, "CONFIG")

\* all_paths of append_path_specifier
all_paths(specifier) ==
    get_archiveable_paths(specifier, "ABSOLUTE")
      \o get_archiveable_paths(specifier, "HOME")
      \o get_archiveable_paths(specifier, "CONFIG")

(* ---------------------------- file system ------------------------------ *)
\* Path::is_file / Path::is_dir on a local (absolute) path
is_file(f, path) == path.segs \in DOMAIN f /\ f[path.segs] # "dir"

is_dir(f, path) == path.segs = <<>> \/ (path.segs \in DOMAIN f /\ f[path.segs] = "dir")

IsPrefix(a, b) == Len(a) <= Len(b) /\ SubSeq(b, 1, Len(a)) = a

Put(f, k, v) == [p \in DOMAIN f \cup {k} |-> IF p = k THEN v ELSE f[p]]

\* fs::remove_file(p)
remove_file(f, path) == [p \in DOMAIN f \ {path.segs} |-> f[p]]

\* fs::remove_dir_all(p): the directory and everything below it
remove_dir_all(f, path) ==
    [p \in {q \in DOMAIN f : ~IsPrefix(path.segs, q)} |-> f[p]]

\* the directory holding a local path exists
ParentIsDir(f, path) ==
    /\ path.segs # <<>>
    /\ is_dir(f, P(TRUE, SubSeq(path.segs, 1, Len(path.segs) - 1)))

(* ---------------------------- archive entries -------------------------- *)
Entry(name, dir, data, cfg) == [name |-> name, dir |-> dir, data |-> data, cfg |-> cfg]

\* toml::to_string_pretty(self): the manifest's text parses back to the configuration
ManifestEntry(ps, mg) == Entry(RCONF, FALSE, "toml", Some([paths |-> ps, manager |-> mg]))

ScriptEntry == Entry(INSTALL_SH, FALSE, "script", None)

\* order in which a directory's children are appended
SegOrder == <<".rconf", "c", "config", "etc", "h", "home", "install.sh", "x">>

\* Builder: the header of an entry takes a relative path with a component
BuilderNameOk(name) == ~name.abs /\ name.segs # <<>>

RECURSIVE DirAll(_, _, _), Children(_, _, _, _)
\* Builder::append_dir_all(name, src): src, then what is below it, named under name
DirAll(f, name, src) ==
    IF is_dir(f, src)
      THEN (IF name # EmptyPath THEN <<Entry(name, TRUE, "dir", None)>> ELSE <<>>)
             \o Children(f, name, src, 1)
    ELSE <<Entry(name, FALSE, f[src.segs], None)>>

Children(f, name, src, k) ==
    IF k > Len(SegOrder) THEN <<>>
    ELSE LET child == P(TRUE, Append(src.segs, SegOrder[k]))
         IN (IF child.segs \in DOMAIN f
               THEN DirAll(f, push(name, P(FALSE, <<SegOrder[k]>>)), child)
             ELSE <<>>)
            \o Children(f, name, src, k + 1)

\* what append_path_specifier does with a path that is neither a file nor a directory
MissingPathFails == "Io"

\* no else branch after is_file / is_dir: the path is passed over
on_missing_path == "none"

RECURSIVE AppendPaths(_, _, _, _, _, _)
\* the loop of append_path_specifier over all_paths from position i, acc appended so far
AppendPaths(all, i, acc, f, home, config) ==
    IF i > Len(all) THEN [err |-> "none", entries |-> acc]
    ELSE LET path == all[i]
             path_buf == to_local_path(path, home, config)
             name == to_tar_path(path)
         IN IF path_buf.err # "none" THEN [err |-> path_buf.err, entries |-> acc]
            ELSE IF is_file(f, path_buf.val)
              THEN IF BuilderNameOk(name)
                     THEN AppendPaths(all, i + 1,
                            Append(acc, Entry(name, FALSE, f[path_buf.val.segs], None)),
                            f, home, config)
                   ELSE [err |-> "Io", entries |-> acc]
            ELSE IF is_dir(f, path_buf.val)
              THEN IF ~name.abs
                     THEN AppendPaths(all, i + 1, acc \o DirAll(f, name, path_buf.val),
                                      f, home, config)
                   ELSE [err |-> "Io", entries |-> acc]
            ELSE IF on_missing_path = "none"
              THEN AppendPaths(all, i + 1, acc, f, home, config)
            ELSE [err |-> on_missing_path, entries |-> acc]

append_path_specifier(acc, specifier, f, home, config) ==
    AppendPaths(all_paths(specifier), 1, acc, f, home, config)

\* write_archive once the file is created: manifest, script, then the specifier's paths
write_archive(ps, mg, f, home, config) ==
    LET head == <<ManifestEntry(ps, mg), ScriptEntry>>
    IN IF ps # None THEN append_path_specifier(head, ps[1], f, home, config)
       ELSE [err |-> "none", entries |-> head]

RECURSIVE ScanManifest(_, _, _)
\* the loop of retrieve_configs: the last ".rconf" entry parsed, an error on the first
\* one that does not parse; unwrap() of nothing panics
ScanManifest(entries, i, cfg) ==
    IF i > Len(entries)
      THEN IF cfg = None THEN [err |-> "panic", cfg |-> None]
           ELSE [err |-> "none", cfg |-> cfg]
    ELSE IF entries[i].name = RCONF
      THEN IF entries[i].cfg = None THEN [err |-> "Deserialize", cfg |-> None]
           ELSE ScanManifest(entries, i + 1, entries[i].cfg)
    ELSE ScanManifest(entries, i + 1, cfg)

retrieve_configs(entries) == ScanManifest(entries, 1, None)

(* ---------------------------- inputs ----------------------------------- *)
Seqs(S, n) == UNION {[1..k -> S] : k \in 1..n}

\* strings a configuration file lists under absolute, and under home or config
AbsStrings == {P(TRUE, <<"etc", "x">>), P(TRUE, <<"home", "x">>), P(TRUE, <<"etc">>),
               P(TRUE, <<"var", "x">>)}

RelStrings == {P(FALSE, <<"x">>)}

OptionVec(S) == {None} \cup {Some(v) : v \in Seqs(S, MaxPaths)}

PathSpecifiers ==
    [absolute : OptionVec(AbsStrings), home : OptionVec(RelStrings),
     config : OptionVec(RelStrings)]

\* a Manager, as far as the archive operations read it
Managers == [un_install_args : BOOLEAN]

\* the host's files before anything ran
InitFs ==
    [p \in {<<"h">>, <<"c">>, <<"etc">>, <<"home">>,
            <<"h", "x">>, <<"c", "x">>, <<"etc", "x">>, <<"home", "x">>}
       |-> IF Len(p) = 1 THEN "dir" ELSE p[1]]

\* archives that write_archive did not build
ForeignArchives ==
    { <<Entry(P(FALSE, <<"etc", "x">>), FALSE, "v2", None)>>,
      <<Entry(RCONF, FALSE, "v2", None),
        Entry(P(FALSE, <<"etc", "x">>), FALSE, "v2", None)>>,
      <<ManifestEntry(None, None),
        Entry(P(TRUE, <<"etc", "x">>), FALSE, "v2", None),
        Entry(P(FALSE, <<"home", "x">>), FALSE, "v2", None),
        Entry(P(FALSE, <<"var", "x">>), FALSE, "v2", None),
        Entry(P(FALSE, <<"config", "x">>), FALSE, "v2", None)>>,
      <<ManifestEntry(None, Some([un_install_args |-> FALSE])),
        Entry(P(FALSE, <<"etc">>), TRUE, "dir", None),
        Entry(P(FALSE, <<"etc", "x">>), FALSE, "v2", None)>> }

Roots == {<<Some(P(TRUE, <<"h">>)), None>>,
          <<None, Some(P(TRUE, <<"c">>))>>,
          <<Some(P(TRUE, <<"h">>)), Some(P(TRUE, <<"c">>))>>}

NoProbe == [op |-> "none", kind |-> "ABSOLUTE", path |-> EmptyPath,
            tar |-> EmptyPath, out |-> None]

Init ==
    /\ \/ /\ paths \in {None} \cup {Some(ps) : ps \in PathSpecifiers}
          /\ manager \in {None} \cup {Some(m) : m \in Managers}
          /\ tar = None
       \/ /\ paths = None
          /\ manager = None
          /\ tar \in {Some(a) : a \in ForeignArchives}
    /\ fs = InitFs
    /\ \E r \in Roots : home_dir = r[1] /\ config_dir = r[2]
    /\ handle = None
    /\ pc = "idle"
    /\ cursor = 0
    /\ op = "none"
    /\ result = "none"
    /\ fault = FALSE
    /\ mgr_status = "none"
    /\ srcFs = None
    /\ passFs = InitFs
    /\ unpacked = {}
    /\ runs = 0
    /\ probe = NoProbe

(* ---------------------------- rconf archive ---------------------------- *)
\* main.rs archive(): write_archive of the configuration to the archive file
Archive ==
    /\ pc = "idle"
    /\ runs < MaxRuns
    /\ runs' = runs + 1
    /\ \E io \in BOOLEAN :
         LET built == write_archive(paths, manager, fs, home_dir, config_dir)
         IN /\ fault' = io
            /\ IF io
                 THEN \* File::create or a write failed
                      /\ result' = "Io"
                      /\ UNCHANGED <<tar, srcFs>>
               ELSE /\ result' = (IF built.err = "none" THEN "Ok" ELSE built.err)
                    /\ tar' = Some(built.entries)
                    /\ srcFs' = (IF built.err = "none" THEN Some(fs) ELSE None)
    /\ op' = "archive"
    /\ mgr_status' = "none"
    /\ handle' = None
    /\ UNCHANGED <<paths, manager, fs, home_dir, config_dir, pc, cursor, passFs,
                   unpacked, probe>>

\* ConfigArchive::with_archive: retrieve_configs, then the file opened again; io says
\* whether the host fails an open or a read
with_archive(t, io) ==
    IF io \/ t = None THEN [err |-> "Io", handle |-> None]
    ELSE LET cfg == retrieve_configs(t[1])
         IN IF cfg.err # "none" THEN [err |-> cfg.err, handle |-> None]
            ELSE [err |-> "none",
                  handle |-> Some([paths |-> cfg.cfg[1].paths,
                                   manager |-> cfg.cfg[1].manager,
                                   archive |-> t[1]])]

(* ---------------------------- install ---------------------------------- *)
\* Entry::unpack(dst): the directories above dst must exist; a file replaces a file
unpack(f, e, dst) ==
    IF e.dir
      THEN IF is_dir(f, dst) THEN [err |-> "none", fs |-> f]
           ELSE IF dst.segs \notin DOMAIN f /\ ParentIsDir(f, dst)
             THEN [err |-> "none", fs |-> Put(f, dst.segs, "dir")]
           ELSE [err |-> "Io", fs |-> f]
    ELSE IF ~is_dir(f, dst) /\ ParentIsDir(f, dst)
      THEN [err |-> "none", fs |-> Put(f, dst.segs, e.data)]
    ELSE [err |-> "Io", fs |-> f]

\* one iteration of the loop of install_configs on entry e
install_entry(f, e, home, config) ==
    LET path == from_tar_path(e.name)
    IN IF path = None THEN [err |-> "none", fs |-> f, dst |-> None]
       ELSE LET dst == to_local_path(path[1], home, config)
            IN IF dst.err # "none" THEN [err |-> dst.err, fs |-> f, dst |-> None]
               ELSE LET r == unpack(f, e, dst.val)
                    IN [err |-> r.err, fs |-> r.fs, dst |-> Some(dst.val)]

\* the ? of install_configs: an error leaves the loop
ErrorIgnored(r) == FALSE

returns_early(r) == r.err # "none"

\* install(): a manager status other than success ends it
StatusIgnored(status) == FALSE

install_stops(status) == status # "success"

\* Manager::install_packages / un_install_packages: the exit status of the command, or
\* the panic of expect() when the command cannot be run
Statuses == {"success", "failure", "panic"}

\* main.rs install(): with_archive, then ConfigArchive::install up to the first entry
\* of install_configs
Install ==
    /\ pc = "idle"
    /\ runs < MaxRuns
    /\ runs' = runs + 1
    /\ \E io \in BOOLEAN :
         LET opened == with_archive(tar, io)
         IN /\ handle' = opened.handle
            /\ fault' = (opened.err = "Io")
            /\ IF opened.err # "none"
                 THEN result' = opened.err /\ mgr_status' = "none"
                      /\ pc' = "idle" /\ cursor' = 0
               ELSE \E status \in (IF opened.handle[1].manager = None THEN {"none"}
                                   ELSE Statuses) :
                      /\ mgr_status' = status
                      /\ IF status = "panic"
                           THEN result' = "panic" /\ pc' = "idle" /\ cursor' = 0
                         ELSE IF status # "none" /\ install_stops(status)
                           THEN result' = "Manager" /\ pc' = "idle" /\ cursor' = 0
                         ELSE result' = "none" /\ pc' = "install" /\ cursor' = 1
    /\ op' = "install"
    /\ passFs' = fs
    /\ unpacked' = {}
    /\ UNCHANGED <<paths, manager, fs, home_dir, config_dir, tar, srcFs, probe>>

\* one iteration of the loop of install_configs
InstallEntry ==
    /\ pc = "install"
    /\ cursor <= Len(handle[1].archive)
    /\ LET e == handle[1].archive[cursor]
           r == install_entry(fs, e, home_dir, config_dir)
       IN \E io \in {"ok", "read", "unpack"} :
            IF io = "read"
              THEN \* the entry cannot be read from the archive
                   /\ result' = "Io" /\ fault' = TRUE /\ pc' = "idle"
                   /\ UNCHANGED <<fs, cursor, unpacked>>
            ELSE IF io = "unpack"
              THEN \* the host refuses the write, before it or part way through it
                   /\ r.err = "none" /\ r.dst # None
                   /\ result' = "Io" /\ fault' = TRUE /\ pc' = "idle"
                   /\ \/ fs' = fs
                      \/ ~e.dir /\ fs' = Put(fs, r.dst[1].segs, "partial")
                   /\ UNCHANGED <<cursor, unpacked>>
            ELSE IF returns_early(r)
              THEN /\ result' = r.err /\ pc' = "idle"
                   /\ UNCHANGED <<fs, cursor, unpacked, fault>>
            ELSE /\ fs' = r.fs
                 /\ cursor' = cursor + 1
                 /\ unpacked' = (IF r.dst # None /\ r.err = "none"
                                   THEN unpacked \cup {[name |-> e.name, dst |-> r.dst[1]]}
                                 ELSE unpacked)
                 /\ UNCHANGED <<result, pc, fault>>
    /\ UNCHANGED <<paths, manager, home_dir, config_dir, tar, handle, op, mgr_status,
                   srcFs, passFs, runs, probe>>

\* the loop of install_configs is over: Ok(())
InstallDone ==
    /\ pc = "install"
    /\ cursor > Len(handle[1].archive)
    /\ result' = "Ok"
    /\ pc' = "idle"
    /\ UNCHANGED <<paths, manager, fs, home_dir, config_dir, tar, handle, cursor, op,
                   fault, mgr_status, srcFs, passFs, unpacked, runs, probe>>

(* ---------------------------- uninstall -------------------------------- *)
\* uninstall_configs on a target that is neither a file nor a directory: Ok(())
MissingTargetFails == "Io"

on_missing_target == "none"

\* one iteration of the loop of uninstall_configs on entry e
uninstall_entry(f, e, home, config) ==
    LET path == from_tar_path(e.name)
    IN IF path = None THEN [err |-> "none", fs |-> f, dst |-> None]
       ELSE LET target == to_local_path(path[1], home, config)
            IN IF target.err # "none" THEN [err |-> target.err, fs |-> f, dst |-> None]
               ELSE IF is_file(f, target.val)
                 THEN [err |-> "none", fs |-> remove_file(f, target.val),
                       dst |-> Some(target.val)]
               ELSE IF is_dir(f, target.val)
                 THEN [err |-> "none", fs |-> remove_dir_all(f, target.val),
                       dst |-> Some(target.val)]
               ELSE [err |-> on_missing_target, fs |-> f, dst |-> Some(target.val)]

\* Manager::un_install_packages without un_install_args: FieldNotFound
ArgsNotRequired(mg) == FALSE

un_install_unavailable(mg) == ~mg.un_install_args

\* the exit status of the uninstall command stopping uninstall() as install()'s does
StatusInspected(status) == status # "success"

\* ConfigArchive::uninstall: if let Err(err) = manager.un_install_packages(); the
\* ExitStatus inside Ok is dropped
uninstall_stops(status) == FALSE

\* main.rs remove(): with_archive, then ConfigArchive::uninstall up to the first entry
\* of uninstall_configs
Uninstall ==
    /\ pc = "idle"
    /\ runs < MaxRuns
    /\ runs' = runs + 1
    /\ \E io \in BOOLEAN :
         LET opened == with_archive(tar, io)
         IN /\ handle' = opened.handle
            /\ fault' = (opened.err = "Io")
            /\ IF opened.err # "none"
                 THEN result' = opened.err /\ mgr_status' = "none"
                      /\ pc' = "idle" /\ cursor' = 0
               ELSE IF opened.handle[1].manager # None
                       /\ un_install_unavailable(opened.handle[1].manager[1])
                 THEN result' = "FieldNotFound" /\ mgr_status' = "none"
                      /\ pc' = "idle" /\ cursor' = 0
               ELSE \E status \in (IF opened.handle[1].manager = None THEN {"none"}
                                   ELSE Statuses) :
                      /\ mgr_status' = status
                      /\ IF status = "panic"
                           THEN result' = "panic" /\ pc' = "idle" /\ cursor' = 0
                         ELSE IF status # "none" /\ uninstall_stops(status)
                           THEN result' = "Manager" /\ pc' = "idle" /\ cursor' = 0
                         ELSE result' = "none" /\ pc' = "uninstall" /\ cursor' = 1
    /\ op' = "uninstall"
    /\ passFs' = fs
    /\ unpacked' = {}
    /\ UNCHANGED <<paths, manager, fs, home_dir, config_dir, tar, srcFs, probe>>

\* one iteration of the loop of uninstall_configs
UninstallEntry ==
    /\ pc = "uninstall"
    /\ cursor <= Len(handle[1].archive)
    /\ LET e == handle[1].archive[cursor]
           r == uninstall_entry(fs, e, home_dir, config_dir)
       IN \E io \in {"ok", "read", "remove"} :
            IF io = "read"
              THEN /\ result' = "Io" /\ fault' = TRUE /\ pc' = "idle"
                   /\ UNCHANGED <<fs, cursor>>
            ELSE IF io = "remove"
              THEN \* the host refuses to remove an existing target
                   /\ r.err = "none" /\ r.dst # None /\ r.fs # fs
                   /\ result' = "Io" /\ fault' = TRUE /\ pc' = "idle"
                   /\ UNCHANGED <<fs, cursor>>
            ELSE IF r.err # "none"
              THEN /\ result' = r.err /\ pc' = "idle"
                   /\ UNCHANGED <<fs, cursor, fault>>
            ELSE /\ fs' = r.fs
                 /\ cursor' = cursor + 1
                 /\ UNCHANGED <<result, pc, fault>>
    /\ UNCHANGED <<paths, manager, home_dir, config_dir, tar, handle, op, mgr_status,
                   srcFs, passFs, unpacked, runs, probe>>

\* the loop of uninstall_configs is over: Ok(())
UninstallDone ==
    /\ pc = "uninstall"
    /\ cursor > Len(handle[1].archive)
    /\ result' = "Ok"
    /\ pc' = "idle"
    /\ UNCHANGED <<paths, manager, fs, home_dir, config_dir, tar, handle, cursor, op,
                   fault, mgr_status, srcFs, passFs, unpacked, runs, probe>>

Next ==
    \/ Archive
    \/ Install
    \/ InstallEntry
    \/ InstallDone
    \/ Uninstall
    \/ UninstallEntry
    \/ UninstallDone

Spec == Init /\ [][Next]_vars

(* ---------------------------- path conversions alone ------------------- *)
ProbeSegs == {"home", "config", ".rconf", "install.sh", "etc", "x"}

ProbePaths == {P(a, s) : a \in BOOLEAN, s \in UNION {[1..k -> ProbeSegs] : k \in 0..MaxLen}}

\* to_tar_path of an ArchivePath, and from_tar_path of what it gives
RoundTrip ==
    /\ probe.op = "none"
    /\ \E kind \in Kinds, r \in ProbePaths :
      probe' = [op |-> "round_trip", kind |-> kind, path |-> r,
                tar |-> to_tar_path(ArchivePath(kind, r)),
                out |-> from_tar_path(to_tar_path(ArchivePath(kind, r)))]

\* from_tar_path and PathKind::from of an entry name
Classify ==
    /\ probe.op = "none"
    /\ \E name \in ProbePaths :
      probe' = [op |-> "from_tar_path", kind |-> PathKindFrom(name), path |-> name,
                tar |-> name, out |-> from_tar_path(name)]

\* strings a configuration file may list under any of its three keys
ProbeStrings == {P(TRUE, <<"etc", "x">>), P(FALSE, <<"x">>), P(FALSE, <<"home", ".rconf">>)}

\* the lists of strings of up to MaxPaths + 1 elements, the empty one included
ProbeLists == {None} \cup {Some(v) : v \in UNION {[1..k -> ProbeStrings] : k \in 0..(MaxPaths + 1)}}

ProbeSpecifiers == [absolute : ProbeLists, home : ProbeLists, config : ProbeLists]

\* get_archiveable_paths of each kind, and all_paths, of a PathSpecifier
Enumerate ==
    /\ probe.op = "none"
    /\ \E specifier \in ProbeSpecifiers :
         probe' = [op |-> "enumerate", specifier |-> specifier,
                   absolute |-> get_archiveable_paths(specifier, "ABSOLUTE"),
                   home |-> get_archiveable_paths(specifier, "HOME"),
                   config |-> get_archiveable_paths(specifier, "CONFIG"),
                   all |-> all_paths(specifier)]

\* what dirs::home_dir() and dirs::config_dir() may give on a host
ProbeRoots == {None, Some(P(TRUE, <<"h">>))} \X {None, Some(P(TRUE, <<"c">>))}

\* a specifier that lists r under the key of kind and nothing else
Only(kind, r) ==
    [absolute |-> IF kind = "ABSOLUTE" THEN Some(<<r>>) ELSE None,
     home |-> IF kind = "HOME" THEN Some(<<r>>) ELSE None,
     config |-> IF kind = "CONFIG" THEN Some(<<r>>) ELSE None]

\* to_local_path of an ArchivePath on a host, and what its three callers return for it:
\* install_configs and uninstall_configs on the entry named to_tar_path, write_archive
\* on a specifier that lists the path
Resolve ==
    /\ probe.op = "none"
    /\ \E kind \in Kinds, r \in ProbePaths, roots \in ProbeRoots :
         LET ap == ArchivePath(kind, r)
             e == Entry(to_tar_path(ap), FALSE, "v2", None)
         IN probe' = [op |-> "to_local_path", kind |-> kind, path |-> r,
                      home |-> roots[1], config |-> roots[2],
                      tar |-> e.name,
                      out |-> to_local_path(ap, roots[1], roots[2]),
                      install |-> install_entry(InitFs, e, roots[1], roots[2]).err,
                      uninstall |-> uninstall_entry(InitFs, e, roots[1], roots[2]).err,
                      archive |-> write_archive(Some(Only(kind, r)), None, InitFs,
                                                roots[1], roots[2]).err]

InitPath ==
    /\ paths = None /\ manager = None /\ tar = None
    /\ fs = InitFs
    /\ home_dir = Some(P(TRUE, <<"h">>)) /\ config_dir = Some(P(TRUE, <<"c">>))
    /\ handle = None /\ pc = "idle" /\ cursor = 0
    /\ op = "none" /\ result = "none" /\ fault = FALSE /\ mgr_status = "none"
    /\ srcFs = None /\ passFs = InitFs /\ unpacked = {}
    /\ runs = 0
    /\ probe = NoProbe

NextPath ==
    /\ \/ RoundTrip
       \/ Classify
       \/ Enumerate
       \/ Resolve
    /\ UNCHANGED <<paths, manager, fs, home_dir, config_dir, tar, handle, pc, cursor,
                   op, result, fault, mgr_status, srcFs, passFs, unpacked, runs>>

SpecPath == InitPath /\ [][NextPath]_vars

(* ---------------------------- claims ----------------------------------- *)
\* r does not start with a reserved marker segment
NoMarker(r) == ~(Len(r.segs) >= 1 /\ r.segs[1] \in {"home", "config"})

\* C1 as stated: for every kind and every relative suffix r that does not start with
\* "home" or "config", from_tar_path(to_tar_path({kind, r})) is Some({kind, r}).
Orig_C1 ==
    (probe.op = "round_trip" /\ ~probe.path.abs /\ NoMarker(probe.path))
      => probe.out = Some([kind |-> probe.kind, path |-> probe.path])

\* C1 amended: the round trip returns Some({kind, r}) for every kind and every relative
\* r that does not start with "home" or "config", except for kind Absolute with r the
\* manifest name ".rconf", which from_tar_path skips.
Thm_C1 ==
    (/\ probe.op = "round_trip" /\ ~probe.path.abs /\ NoMarker(probe.path)
     /\ ~(probe.kind = "ABSOLUTE" /\ probe.path.segs = <<".rconf">>))
      => probe.out = Some([kind |-> probe.kind, path |-> probe.path])

\* a Config path of two components went through to_tar_path and from_tar_path
Wit_C1 ==
    /\ probe.op = "round_trip"
    /\ probe.kind = "CONFIG"
    /\ probe.path = P(FALSE, <<"etc", "x">>)
    /\ probe.tar = P(FALSE, <<"config", "etc", "x">>)
    /\ probe.out # None

\* C10: from_tar_path gives None for ".rconf"; otherwise Home with the first segment
\* stripped when it is "home"; otherwise Config with it stripped when it is "config";
\* otherwise Absolute with a relative name unchanged; and PathKind::from names the same
\* kind whenever from_tar_path names one.
Thm_C10 ==
    probe.op = "from_tar_path" =>
      LET n == probe.path
          first == IF Len(n.segs) >= 1 THEN n.segs[1] ELSE ""
          rest == [abs |-> FALSE, segs |-> SubSeq(n.segs, 2, Len(n.segs))]
      IN /\ (~n.abs /\ n.segs = <<".rconf">>) => probe.out = <<>>
         /\ (~n.abs /\ n.segs # <<".rconf">> /\ first = "home")
              => probe.out = <<[kind |-> "HOME", path |-> rest]>>
         /\ (~n.abs /\ n.segs # <<".rconf">> /\ first = "config")
              => probe.out = <<[kind |-> "CONFIG", path |-> rest]>>
         /\ (~n.abs /\ n.segs # <<".rconf">> /\ first \notin {"home", "config"})
              => probe.out = <<[kind |-> "ABSOLUTE", path |-> n]>>
         /\ probe.out # <<>> => probe.out[1].kind = probe.kind

\* "home/x" was classified as Home with relative path "x"
Wit_C10 ==
    /\ probe.op = "from_tar_path"
    /\ probe.path = P(FALSE, <<"home", "x">>)
    /\ probe.out = Some(ArchivePath("HOME", P(FALSE, <<"x">>)))

\* the entry name C2 expects for a configured path
ExpectedName(ap) ==
    IF ap.kind = "HOME" THEN [abs |-> FALSE, segs |-> <<"home">> \o ap.path.segs]
    ELSE IF ap.kind = "CONFIG" THEN [abs |-> FALSE, segs |-> <<"config">> \o ap.path.segs]
    ELSE [abs |-> FALSE, segs |-> ap.path.segs]

\* the configured paths of the configuration file
Configured == IF paths = None THEN {} ELSE {all_paths(paths[1])[i] : i \in 1..Len(all_paths(paths[1]))}

\* an install that ran to the end on the archive write_archive built on this host
Restored == op = "install" /\ pc = "idle" /\ result = "Ok" /\ srcFs # None

\* C2 as stated: after write_archive and an install of that archive on the same host,
\* every configured path that named a local file has an entry under its
\* archive-relative name, and that entry was unpacked with the file's content at the
\* local path it was read from.
Orig_C2 ==
    Restored =>
      \A ap \in Configured :
        LET src == to_local_path(ap, home_dir, config_dir).val
        IN is_file(srcFs[1], src) =>
             /\ \E i \in 1..Len(tar[1]) : tar[1][i].name = ExpectedName(ap)
             /\ [name |-> ExpectedName(ap), dst |-> src] \in unpacked
             /\ is_file(fs, src) /\ fs[src.segs] = srcFs[1][src.segs]

\* C3 as stated: the install pass unpacks neither ".rconf" nor "install.sh".
Orig_C3 ==
    \A u \in unpacked : u.name.segs \notin {<<".rconf">>, <<"install.sh">>}

\* a configured path resolves and is neither a file nor a directory
Missing(ap) ==
    LET l == to_local_path(ap, home_dir, config_dir)
    IN l.err = "none" /\ ~is_file(fs, l.val) /\ ~is_dir(fs, l.val)

\* C4 as stated: write_archive fails with Io when a configured path is neither a file
\* nor a directory.
Orig_C4 ==
    (op = "archive" /\ \E ap \in Configured : Missing(ap)) => result = "Io"

\* a list of strings without those that are missing
Present(property, kind) ==
    IF property = None THEN None
    ELSE Some(SelectSeq(property[1], LAMBDA s : ~Missing(ArchivePath(kind, s))))

\* C4 amended: a configured path that is neither a file nor a directory is passed over:
\* write_archive gives the result, and the archive the entries after the manifest, that
\* they would have without that path.
Thm_C4 ==
    (op = "archive" /\ ~fault /\ paths # None) =>
      LET kept == [absolute |-> Present(paths[1].absolute, "ABSOLUTE"),
                   home |-> Present(paths[1].home, "HOME"),
                   config |-> Present(paths[1].config, "CONFIG")]
          b == write_archive(Some(kept), manager, fs, home_dir, config_dir)
      IN /\ result = (IF b.err = "none" THEN "Ok" ELSE b.err)
         /\ Tail(tar[1]) = Tail(b.entries)

\* write_archive returned Ok although a configured path was missing
Wit_C4 ==
    /\ op = "archive" /\ result = "Ok"
    /\ \E ap \in Configured : Missing(ap)
    /\ \E ap \in Configured : ~Missing(ap)

\* C5 as stated: opening an archive without a ".rconf" entry returns ManifestMissing,
\* and no pass is begun.
Orig_C5 ==
    (/\ op \in {"install", "uninstall"} /\ tar # None /\ ~fault
     /\ \A i \in 1..Len(tar[1]) : tar[1][i].name.segs # <<".rconf">>)
      => (result = "ManifestMissing" /\ pc = "idle" /\ fs = passFs)

\* C6: in install() a configured manager runs before the pass over the entries, and when
\* it reports failure install() returns the Manager error with nothing unpacked.
Thm_C6 ==
    op = "install" =>
      /\ mgr_status = "failure"
           => (result = "Manager" /\ pc = "idle" /\ unpacked = {} /\ fs = passFs)
      /\ (handle # None /\ handle[1].manager # None /\ (cursor >= 1 \/ unpacked # {}))
           => mgr_status = "success"

\* the manager failed on an archive that holds entries to unpack
Wit_C6 ==
    /\ op = "install" /\ mgr_status = "failure" /\ result = "Manager"
    /\ \E i \in 1..Len(handle[1].archive) :
         /\ from_tar_path(handle[1].archive[i].name) # None
         /\ handle[1].archive[i].name # INSTALL_SH

RECURSIVE InstallFold(_, _, _)
\* the first n entries unpacked one after the other, and whether each one succeeded
InstallFold(f, entries, n) ==
    IF n = 0 THEN [ok |-> TRUE, fs |-> f]
    ELSE LET prev == InstallFold(f, entries, n - 1)
             r == install_entry(prev.fs, entries[n], home_dir, config_dir)
         IN [ok |-> prev.ok /\ r.err = "none", fs |-> r.fs]

\* C7: an install pass stops at the first entry that fails: the entries before it are
\* applied, none after it is, and the error is the result at once.
Thm_C7 ==
    (op = "install" /\ cursor >= 1) =>
      LET entries == handle[1].archive
          ex == InstallFold(passFs, entries, cursor - 1)
          failed == pc = "idle" /\ result # "Ok"
      IN /\ ex.ok
         /\ failed => cursor <= Len(entries)
         /\ \/ fs = ex.fs
            \/ /\ failed /\ fault
               /\ \E d \in DOMAIN fs :
                    /\ fs = Put(ex.fs, d, "partial")
                    /\ install_entry(ex.fs, entries[cursor], home_dir, config_dir).dst
                         = Some(P(TRUE, d))

\* a pass failed on an entry after it had unpacked one and before it reached the last
Wit_C7 ==
    /\ op = "install" /\ pc = "idle" /\ result = "Io" /\ ~fault
    /\ unpacked # {}
    /\ fs # passFs
    /\ cursor < Len(handle[1].archive)
    /\ from_tar_path(handle[1].archive[cursor + 1].name) # None

\* C8: uninstall() with a manager that has no un_install_args fails with FieldNotFound
\* and removes nothing.
Thm_C8 ==
    (/\ op = "uninstall" /\ handle # None /\ handle[1].manager # None
     /\ ~handle[1].manager[1].un_install_args)
      => (result = "FieldNotFound" /\ pc = "idle" /\ cursor = 0 /\ fs = passFs)

\* uninstall() stopped on the missing arguments with a destination still in place
Wit_C8 ==
    /\ op = "uninstall" /\ result = "FieldNotFound"
    /\ \E i \in 1..Len(handle[1].archive) :
         /\ from_tar_path(handle[1].archive[i].name) # None
         /\ LET t == to_local_path(from_tar_path(handle[1].archive[i].name)[1],
                                   home_dir, config_dir)
            IN t.err = "none" /\ is_file(fs, t.val)

\* the local destinations of the entries of the open archive
Targets ==
    {t.val : t \in {x \in {to_local_path(from_tar_path(handle[1].archive[i].name)[1],
                                         home_dir, config_dir) :
                             i \in {j \in 1..Len(handle[1].archive) :
                                      from_tar_path(handle[1].archive[j].name) # None}} :
                      x.err = "none"}}

DomainNames(property, kind) ==
    IF property = None THEN <<>>
    ELSE [i \in 1..Len(property[1]) |-> ExpectedName([kind |-> kind, path |-> property[1][i]])]

\* the entry names C11 expects: all Absolute, then all Home, then all Config
ExpectedLayout ==
    IF paths = None THEN <<>>
    ELSE DomainNames(paths[1].absolute, "ABSOLUTE")
           \o DomainNames(paths[1].home, "HOME")
           \o DomainNames(paths[1].config, "CONFIG")

RECURSIVE InLayoutOrder(_, _, _, _)
\* the entries from j on are named by, or below, the expected names from i on, in order
InLayoutOrder(entries, j, expected, i) ==
    IF j > Len(entries) THEN TRUE
    ELSE IF i > Len(expected) THEN FALSE
    ELSE IF IsPrefix(expected[i].segs, entries[j].name.segs) /\ ~entries[j].name.abs
      THEN InLayoutOrder(entries, j + 1, expected, i)
    ELSE InLayoutOrder(entries, j, expected, i + 1)

\* C11: an archive write_archive built has ".rconf" as its first entry, "install.sh" as
\* its second, then the payload entries in the order all Absolute, all Home, all Config
\* of the configured paths, each under the to_tar_path name of its path (a directory
\* with the entries below it); every configured file has its entry; with no specifier, or
\* one whose domains are all absent, the manifest and the script are the only entries.
Thm_C11 ==
    (op = "archive" /\ result = "Ok") =>
      /\ Len(tar[1]) >= 2
      /\ tar[1][1].name = RCONF
      /\ tar[1][2].name = INSTALL_SH
      /\ InLayoutOrder(tar[1], 3, ExpectedLayout, 1)
      /\ \A i \in 1..Len(ExpectedLayout) :
           (\E ap \in Configured :
              /\ ExpectedName(ap) = ExpectedLayout[i]
              /\ is_file(fs, to_local_path(ap, home_dir, config_dir).val))
             => \E j \in 3..Len(tar[1]) : tar[1][j].name = ExpectedLayout[i]
      /\ ExpectedLayout = <<>> => Len(tar[1]) = 2

\* an archive was built with a payload entry of each of the three domains
Wit_C11 ==
    /\ op = "archive" /\ result = "Ok"
    /\ paths # None
    /\ paths[1].absolute # None /\ paths[1].home # None /\ paths[1].config # None
    /\ Len(tar[1]) >= 5
    /\ \E i, j, k \in 3..Len(tar[1]) :
         /\ i < j /\ j < k
         /\ PathKindFrom(tar[1][i].name) = "ABSOLUTE"
         /\ PathKindFrom(tar[1][j].name) = "HOME"
         /\ PathKindFrom(tar[1][k].name) = "CONFIG"

\* an archive was built from no specifier and holds the manifest and the script alone
Wit_C11_empty ==
    /\ op = "archive" /\ result = "Ok"
    /\ ExpectedLayout = <<>>
    /\ Len(tar[1]) = 2

\* the number of strings a key of the specifier lists
DomainSize(property) == IF property = None THEN 0 ELSE Len(property[1])

\* what C12 expects of one domain: one ArchivePath per string, in list order, of the
\* kind asked for, with the string unchanged; nothing when the key is absent
EnumeratesDomain(property, kind, out) ==
    /\ Len(out) = DomainSize(property)
    /\ \A i \in 1..Len(out) : out[i].kind = kind /\ out[i].path = property[1][i]

\* C12: get_archiveable_paths(kind) returns one ArchivePath per string of that domain,
\* in list order, tagged with the kind and carrying the string unchanged, and the empty
\* sequence when the domain is absent; all_paths is the Absolute, then the Home, then
\* the Config sequence, so its length is the sum of the three domain sizes.
Thm_C12 ==
    probe.op = "enumerate" =>
      /\ EnumeratesDomain(probe.specifier.absolute, "ABSOLUTE", probe.absolute)
      /\ EnumeratesDomain(probe.specifier.home, "HOME", probe.home)
      /\ EnumeratesDomain(probe.specifier.config, "CONFIG", probe.config)
      /\ probe.all = probe.absolute \o probe.home \o probe.config
      /\ Len(probe.all) = DomainSize(probe.specifier.absolute)
                            + DomainSize(probe.specifier.home)
                            + DomainSize(probe.specifier.config)

\* a specifier with two different absolute strings, one home string and no config key
\* was enumerated
Wit_C12 ==
    /\ probe.op = "enumerate"
    /\ probe.specifier.absolute # None
    /\ Len(probe.specifier.absolute[1]) = 2
    /\ probe.specifier.absolute[1][1] # probe.specifier.absolute[1][2]
    /\ probe.specifier.home # None /\ Len(probe.specifier.home[1]) = 1
    /\ probe.specifier.config = None
    /\ Len(probe.all) = 3
    /\ probe.all[3].kind = "HOME"

\* C13: to_local_path of kind Absolute never fails and gives the relative path below
\* the root "/"; of kind Home (Config) it fails with DirNotFound naming Home (Config)
\* exactly when the host has no home (config) directory, and otherwise gives the relative
\* path below that directory; install_configs, uninstall_configs and write_archive
\* return that error when the path they resolve is this one.
Thm_C13 ==
    probe.op = "to_local_path" =>
      LET r == probe.path
          below(root) == Ok([abs |-> TRUE, segs |-> root.segs \o r.segs])
      IN /\ probe.kind = "ABSOLUTE" =>
              /\ probe.out.err = "none"
              /\ ~r.abs => probe.out = below([abs |-> TRUE, segs |-> <<>>])
         /\ probe.kind = "HOME" =>
              /\ probe.out.err = "DirNotFound(Home)" <=> probe.home = <<>>
              /\ probe.out.err \in {"none", "DirNotFound(Home)"}
              /\ (probe.home # <<>> /\ ~r.abs) => probe.out = below(probe.home[1])
         /\ probe.kind = "CONFIG" =>
              /\ probe.out.err = "DirNotFound(Config)" <=> probe.config = <<>>
              /\ probe.out.err \in {"none", "DirNotFound(Config)"}
              /\ (probe.config # <<>> /\ ~r.abs) => probe.out = below(probe.config[1])
         /\ probe.out.err # "none" =>
              /\ probe.archive = probe.out.err
              /\ from_tar_path(probe.tar) = <<[kind |-> probe.kind, path |-> r]>>
                   => (probe.install = probe.out.err /\ probe.uninstall = probe.out.err)

\* a Config path was resolved on a host without a config directory, and the three
\* callers returned DirNotFound for it
Wit_C13 ==
    /\ probe.op = "to_local_path"
    /\ probe.kind = "CONFIG" /\ probe.path = P(FALSE, <<"etc", "x">>)
    /\ probe.config = <<>> /\ probe.home # <<>>
    /\ probe.out.err = "DirNotFound(Config)"
    /\ probe.install = "DirNotFound(Config)"
    /\ probe.uninstall = "DirNotFound(Config)"
    /\ probe.archive = "DirNotFound(Config)"

\* a Home path was resolved below the home directory of the host
Wit_C13_home ==
    /\ probe.op = "to_local_path"
    /\ probe.kind = "HOME" /\ probe.path = P(FALSE, <<"x">>)
    /\ probe.out = Ok(P(TRUE, <<"h", "x">>))

\* the invariant C14 states of an ArchivePath: a relative path without a root, that does
\* not begin with the marker of its own kind and has no ".rconf" segment
ProperRelative(ap) ==
    /\ ~ap.path.abs
    /\ ~(ap.kind = "HOME" /\ Len(ap.path.segs) >= 1 /\ ap.path.segs[1] = "home")
    /\ ~(ap.kind = "CONFIG" /\ Len(ap.path.segs) >= 1 /\ ap.path.segs[1] = "config")
    /\ \A i \in 1..Len(ap.path.segs) : ap.path.segs[i] # ".rconf"

\* C14 as stated: every ArchivePath built by enumeration of a PathSpecifier or by
\* from_tar_path has a path without a root, that does not begin with the marker of its
\* own kind and does not contain the manifest name.
Orig_C14 ==
    /\ probe.op = "enumerate" => \A i \in 1..Len(probe.all) : ProperRelative(probe.all[i])
    /\ (probe.op = "from_tar_path" /\ probe.out # <<>>) => ProperRelative(probe.out[1])

\* C14 amended: an ArchivePath built by from_tar_path has a path without a root, and one
\* of kind Absolute neither begins with "home" or "config" nor is the manifest name; an
\* ArchivePath built by enumeration has the configured string as its path, unchanged.
Thm_C14 ==
    /\ (probe.op = "from_tar_path" /\ probe.out # <<>>) =>
         /\ ~probe.out[1].path.abs
         /\ probe.out[1].kind = "ABSOLUTE" =>
              (NoMarker(probe.out[1].path) /\ probe.out[1].path # RCONF)
    /\ probe.op = "enumerate" =>
         \A i \in 1..Len(probe.all) :
           LET key == IF probe.all[i].kind = "ABSOLUTE" THEN probe.specifier.absolute
                      ELSE IF probe.all[i].kind = "HOME" THEN probe.specifier.home
                      ELSE probe.specifier.config
           IN key # <<>> /\ \E j \in 1..Len(key[1]) : key[1][j] = probe.all[i].path

\* from_tar_path built a Home ArchivePath whose path begins with "home"
Wit_C14 ==
    /\ probe.op = "from_tar_path"
    /\ probe.path = P(FALSE, <<"home", "home">>)
    /\ probe.out = Some(ArchivePath("HOME", P(FALSE, <<"home">>)))

\* enumeration built an Absolute ArchivePath whose path has a root
Wit_C14_rooted ==
    /\ probe.op = "enumerate"
    /\ Len(probe.all) >= 1
    /\ probe.all[1] = ArchivePath("ABSOLUTE", P(TRUE, <<"etc", "x">>))

Wit_C15_rooted ==
    /\ probe.op = "from_tar_path"
    /\ probe.path = P(TRUE, <<"home", "x">>)
    /\ probe.out = <<>>

Thm_C16 ==
    /\ (op = "uninstall" /\ mgr_status = "failure") =>
         /\ cursor >= 1
         /\ result \notin {"Manager", "FieldNotFound"}
         /\ (pc = "idle" /\ cursor > Len(handle[1].archive)) => result = "Ok"
    /\ (op = "uninstall" /\ handle # None /\ cursor = 0 /\ mgr_status # "panic") =>
         /\ result = "FieldNotFound"
         /\ handle[1].manager # None /\ ~handle[1].manager[1].un_install_args
    /\ (op = "install" /\ mgr_status = "failure") => (result = "Manager" /\ cursor = 0)

\* the uninstall command failed, the pass removed a destination and uninstall()
\* returned Ok
Wit_C16 ==
    /\ op = "uninstall" /\ mgr_status = "failure"
    /\ pc = "idle" /\ result = "Ok"
    /\ fs # passFs

====
